---- MODULE Spec2Model ----
(***************************************************************************)
(* A model of apps/demo/src/components/TldrawCanvas.tsx: the React         *)
(* component that rebuilds a tldraw scene from parsed PowerPoint slides.   *)
(*                                                                         *)
(* JavaScript values are modelled as follows.                              *)
(*   - an object is a record holding only the fields that are present;     *)
(*     `c.f || d` and `c.f ?? d` are the operators Or0, OrDefault, Nullish  *)
(*   - a string is a TLA+ string (Len, SubSeq and \o work on them)         *)
(*   - a number is an integer; the inputs are chosen so that every         *)
(*     division the code performs on them is exact                         *)
(*   - an async function is cut at its awaits: one action per synchronous  *)
(*     segment, the position kept in the rebuild's pc                      *)
(*   - the editor is the set of shapes and assets it holds; createShape    *)
(*     puts a record under its id, deleteShapes removes ids.  The calls of *)
(*     the try block of renderImageComponent may throw; the other calls    *)
(*     (frames, texts, geo shapes, placeholders, zoomToFit) do not         *)
(*   - rotation is kept in degrees, standing for degrees * PI / 180; the   *)
(*     inputs rotate by quarter turns, where Math.cos and Math.sin are     *)
(*     exact                                                               *)
(***************************************************************************)
EXTENDS Integers, Sequences, FiniteSets, TLC

VARIABLES
    editorRef,   \* editorRef.current is set (the canvas has mounted)
    props,       \* the component's current props: [slides, components]
    scene,       \* the shapes of the editor's current page
    assets,      \* the assets registered with the editor
    idsIssued,   \* how many ids AssetRecordType.createId() has handed out
    runs         \* the rebuilds started so far, in order of their start

vars == <<editorRef, props, scene, assets, idsIssued, runs>>

---------------------------------------------------------------------------
(* Bounds of the model.                                                    *)

\* rebuilds that may be started in one behaviour
MaxRebuilds == 2
\* components of a slide in the enumerated single-slide documents
MaxComps == 2
\* slides of a document in the enumerated layout documents
MaxSlides == 5

(* Constants of the program.                                               *)

maxSlideWidthBase == 1280
maxSlideHeightBase == 720
PADDING == 50
SLIDE_SPACING == 200
SLIDES_PER_ROW == 4
GRID_ORIGIN == 50

---------------------------------------------------------------------------
(* JavaScript helpers.                                                     *)

Has(c, f) == f \in DOMAIN c

\* c.f || 0 for a numeric field
Or0(c, f) == IF Has(c, f) THEN c[f] ELSE 0

\* c.f || d for a numeric field: absent and 0 are both falsy
OrDefault(c, f, d) == IF Has(c, f) /\ c[f] # 0 THEN c[f] ELSE d

\* c.f ?? d
Nullish(c, f, d) == IF Has(c, f) THEN c[f] ELSE d

\* c.metadata?.f is present
MHas(c, f) == Has(c, "metadata") /\ f \in DOMAIN c.metadata

Max(a, b) == IF a > b THEN a ELSE b

Digit(d) == SubSeq("0123456789", d + 1, d + 1)

\* String(n) of a non-negative integer, as a template literal formats it
RECURSIVE NumStr(_)
NumStr(n) == IF n < 10 THEN Digit(n) ELSE NumStr(n \div 10) \o Digit(n % 10)

\* s.startsWith(p)
StartsWith(s, p) == Len(s) >= Len(p) /\ SubSeq(s, 1, Len(p)) = p

IsSpace(ch) == ch \in {" ", "\t", "\n"}

\* s.trim()
RECURSIVE TrimLeft(_)
TrimLeft(s) ==
    IF Len(s) > 0 /\ IsSpace(SubSeq(s, 1, 1)) THEN TrimLeft(SubSeq(s, 2, Len(s))) ELSE s

RECURSIVE TrimRight(_)
TrimRight(s) ==
    IF Len(s) > 0 /\ IsSpace(SubSeq(s, Len(s), Len(s)))
    THEN TrimRight(SubSeq(s, 1, Len(s) - 1)) ELSE s

Trim(s) == TrimRight(TrimLeft(s))

\* the lower-case form of one character
LowerOf(ch) ==
    LET upper == "ABCDEFGHIJKLMNOPQRSTUVWXYZ"
        lower == "abcdefghijklmnopqrstuvwxyz"
    IN IF \E i \in 1..26 : SubSeq(upper, i, i) = ch
       THEN LET i == CHOOSE i \in 1..26 : SubSeq(upper, i, i) = ch
            IN SubSeq(lower, i, i)
       ELSE ch

\* s.toLowerCase()
RECURSIVE toLowerCase(_)
toLowerCase(s) ==
    IF Len(s) = 0 THEN s
    ELSE LowerOf(SubSeq(s, 1, 1)) \o toLowerCase(SubSeq(s, 2, Len(s)))

\* s.includes(p)
Includes(s, p) == \E i \in 1..(Len(s) - Len(p) + 1) : SubSeq(s, i, i + Len(p) - 1) = p

\* component.style?.f is present
SHas(c, f) == Has(c, "style") /\ f \in DOMAIN c.style

\* component.style?.f is a truthy string
SStr(c, f) == SHas(c, f) /\ c.style[f] # ""

\* createShapeId(name)
createShapeId(name) == "shape:" \o name

\* `${component.id || index}`
IdOrIndex(component, index) ==
    IF Has(component, "id") /\ component.id # "" THEN component.id ELSE NumStr(index)

---------------------------------------------------------------------------
(* Stacking order: drawComponentsInFrame's sort.                           *)

\* a faulty comparator: the operands swapped
CompareDescending(a, b) == Nullish(b, "zIndex", 0) - Nullish(a, "zIndex", 0)

\* the comparator (a, b) => (a.zIndex ?? 0) - (b.zIndex ?? 0)
CompareZIndex(a, b) == Nullish(a, "zIndex", 0) - Nullish(b, "zIndex", 0)

\* Array.prototype.sort is stable: position k goes behind every position
\* already placed that does not compare greater than it.
RECURSIVE InsertSorted(_, _, _)
InsertSorted(components, order, k) ==
    IF order = <<>> THEN <<k>>
    ELSE IF CompareZIndex(components[Head(order)], components[k]) <= 0
         THEN <<Head(order)>> \o InsertSorted(components, Tail(order), k)
         ELSE <<k>> \o order

RECURSIVE SortPrefix(_, _)
SortPrefix(components, n) ==
    IF n = 0 THEN <<>>
    ELSE InsertSorted(components, SortPrefix(components, n - 1), n)

\* sortedComponents, as the original (1-based) positions in sorted order
SortOrder(components) == SortPrefix(components, Len(components))

\* sortedComponents[index], index counted from 0 as in the code
SortedAt(components, index) == components[SortOrder(components)[index + 1]]

---------------------------------------------------------------------------
(* Layout: calculateComponentBounds and the frame grid of drawSlides.      *)

\* a faulty extent: the component's x left out
compMaxXWidthOnly(comp) == Or0(comp, "width")

compMaxX(comp) == Or0(comp, "x") + Or0(comp, "width")

compMaxY(comp) == Or0(comp, "y") + Or0(comp, "height")

RECURSIVE BoundsFrom(_, _, _)
BoundsFrom(components, k, acc) ==
    IF k > Len(components) THEN acc
    ELSE BoundsFrom(components, k + 1,
            [maxX |-> IF compMaxX(components[k]) > acc.maxX
                      THEN compMaxX(components[k]) ELSE acc.maxX,
             maxY |-> IF compMaxY(components[k]) > acc.maxY
                      THEN compMaxY(components[k]) ELSE acc.maxY])

calculateComponentBounds(components) ==
    IF Len(components) = 0 THEN [maxX |-> 0, maxY |-> 0]
    ELSE BoundsFrom(components, 1, [maxX |-> 0, maxY |-> 0])

\* the slides.forEach of drawSlides: the uniform frame size
RECURSIVE UniformFrom(_, _, _)
UniformFrom(slides, k, acc) ==
    IF k > Len(slides) THEN acc
    ELSE LET componentBounds == calculateComponentBounds(slides[k].components)
         IN UniformFrom(slides, k + 1,
                [maxSlideWidth  |-> Max(acc.maxSlideWidth, componentBounds.maxX + PADDING),
                 maxSlideHeight |-> Max(acc.maxSlideHeight, componentBounds.maxY + PADDING)])

UniformSize(slides) ==
    UniformFrom(slides, 1, [maxSlideWidth |-> maxSlideWidthBase,
                            maxSlideHeight |-> maxSlideHeightBase])

\* a faulty column origin: the spacing left out
slideXNoSpacing(slideIndex, slideWidth) ==
    (slideIndex % SLIDES_PER_ROW) * slideWidth + GRID_ORIGIN

slideX(slideIndex, slideWidth) ==
    (slideIndex % SLIDES_PER_ROW) * (slideWidth + SLIDE_SPACING) + GRID_ORIGIN

slideY(slideIndex, slideHeight) ==
    (slideIndex \div SLIDES_PER_ROW) * (slideHeight + SLIDE_SPACING) + GRID_ORIGIN

frameIdOf(slideIndex) == createShapeId("slide-frame-" \o NumStr(slideIndex))

\* slide.metadata?.name || `Slide ${slide.slideNumber}`
FrameName(slide) ==
    IF MHas(slide, "name") /\ slide.metadata.name # "" THEN slide.metadata.name
    ELSE "Slide " \o NumStr(slide.slideNumber)

FrameShape(slide, slideIndex, size) ==
    [id |-> frameIdOf(slideIndex),
     type |-> "frame",
     x |-> slideX(slideIndex, size.maxSlideWidth),
     y |-> slideY(slideIndex, size.maxSlideHeight),
     props |-> [w |-> size.maxSlideWidth, h |-> size.maxSlideHeight,
                name |-> FrameName(slide)]]

---------------------------------------------------------------------------
(* The per-type builders.  Each yields the argument of createShape.        *)

\* frameId is "" for null (legacy mode); `if (frameId) props.parentId = frameId`
WithParent(shape, frameId) ==
    IF frameId # "" THEN shape @@ [parentId |-> frameId] ELSE shape

\* a faulty position: the frame origin added whether or not there is a parent
PosXAbsolute(component, frameX, frameId) == frameX + Or0(component, "x")

\* frameId ? (component.x || 0) * scale : frameX + (component.x || 0) * scale
PosX(component, frameX, frameId) ==
    IF frameId # "" THEN Or0(component, "x") ELSE frameX + Or0(component, "x")

PosY(component, frameY, frameId) ==
    IF frameId # "" THEN Or0(component, "y") ELSE frameY + Or0(component, "y")

\* component.rotation && component.rotation !== 0
IsRotated(component) == Has(component, "rotation") /\ component.rotation # 0

\* Math.cos and Math.sin of degrees * PI / 180, exact on the quarter turns
CosDeg(deg) == CASE deg % 360 = 0 -> 1 [] deg % 360 = 180 -> -1 [] OTHER -> 0

SinDeg(deg) == CASE deg % 360 = 90 -> 1 [] deg % 360 = 270 -> -1 [] OTHER -> 0

\* the rotation field of a shape: the angle in units of PI / 180 radians
Radians(component) == IF IsRotated(component) THEN component.rotation ELSE 0

\* a faulty corner: the rotation correction left out
TextXUncorrected(component, frameX, frameId) == PosX(component, frameX, frameId)

\* renderTextComponent: the corner recomputed about the centre when rotated
TextX(component, frameX, frameId) ==
    LET x == PosX(component, frameX, frameId)
        width == Or0(component, "width")
        height == Or0(component, "height")
        originalCenterX == x + width \div 2
    IN IF IsRotated(component)
       THEN originalCenterX - (width \div 2) * CosDeg(component.rotation)
                            + (height \div 2) * SinDeg(component.rotation)
       ELSE x

TextY(component, frameY, frameId) ==
    LET y == PosY(component, frameY, frameId)
        width == Or0(component, "width")
        height == Or0(component, "height")
        originalCenterY == y + height \div 2
    IN IF IsRotated(component)
       THEN originalCenterY - (width \div 2) * SinDeg(component.rotation)
                            - (height \div 2) * CosDeg(component.rotation)
       ELSE y

\* renderTextComponent: the font size in points to a size category
tldrawSize(component) ==
    IF SHas(component, "fontSize") /\ component.style.fontSize # 0
    THEN IF component.style.fontSize <= 10 THEN "s"
         ELSE IF component.style.fontSize <= 13 THEN "s"
         ELSE IF component.style.fontSize <= 18 THEN "m"
         ELSE IF component.style.fontSize <= 23 THEN "l"
         ELSE "xl"
    ELSE "m"

\* renderTextComponent: the cascade on hexColor = style.color.toLowerCase()
TextColorOf(hexColor) ==
    IF hexColor = "#000000" THEN "black"
    ELSE IF hexColor = "#e97132" THEN "orange"
    ELSE IF hexColor = "#4ea72e" THEN "green"
    ELSE IF StartsWith(hexColor, "#ff") \/ StartsWith(hexColor, "#e")
            \/ StartsWith(hexColor, "#d")
         THEN IF Includes(hexColor, "7") \/ Includes(hexColor, "8")
                 \/ Includes(hexColor, "9")
              THEN "orange" ELSE "red"
    ELSE IF StartsWith(hexColor, "#4")
            \/ (StartsWith(hexColor, "#0") /\ Includes(hexColor, "a"))
         THEN "green"
    ELSE IF StartsWith(hexColor, "#0") THEN "blue"
    ELSE "black"

tldrawColor(component) ==
    IF SStr(component, "color") THEN TextColorOf(toLowerCase(component.style.color))
    ELSE "black"

\* renderTextComponent: the font family to a tldraw font
tldrawFont(component) ==
    IF SStr(component, "fontFamily")
    THEN LET fontFamily == toLowerCase(component.style.fontFamily)
         IN IF Includes(fontFamily, "times") \/ Includes(fontFamily, "georgia")
               \/ Includes(fontFamily, "serif")
            THEN "serif"
            ELSE IF Includes(fontFamily, "courier") \/ Includes(fontFamily, "consolas")
                    \/ Includes(fontFamily, "monaco") \/ Includes(fontFamily, "mono")
            THEN "mono"
            ELSE IF Includes(fontFamily, "comic") \/ Includes(fontFamily, "marker")
                    \/ Includes(fontFamily, "sketch")
            THEN "draw"
            ELSE "sans"
    ELSE "sans"

\* a faulty classifier: the colour handed through unclassified
ShapeColorUnmapped(hexColor, fallback) == hexColor

\* renderShapeComponent: the cascade on hexColor, the same for the background
\* and the border but for its last line (`else fillColor = 'grey'`,
\* `else strokeColor = 'black'`)
ShapeColorOf(hexColor, fallback) ==
    IF hexColor = "#000000" THEN "black"
    ELSE IF hexColor = "#ffffff" THEN "grey"
    ELSE IF hexColor = "#ed7d31" THEN "orange"
    ELSE IF hexColor = "#4472c4" THEN "blue"
    ELSE IF hexColor = "#5b9bd5" THEN "light-blue"
    ELSE IF hexColor = "#70ad47" THEN "green"
    ELSE IF hexColor = "#ffc000" THEN "yellow"
    ELSE IF hexColor = "#c55a5a" THEN "red"
    ELSE IF StartsWith(hexColor, "#ed") \/ StartsWith(hexColor, "#e9")
            \/ (StartsWith(hexColor, "#f") /\ ~Includes(hexColor, "ff"))
         THEN "orange"
    ELSE IF StartsWith(hexColor, "#44") \/ StartsWith(hexColor, "#45") THEN "blue"
    ELSE IF StartsWith(hexColor, "#5b") \/ StartsWith(hexColor, "#5a") THEN "light-blue"
    ELSE IF StartsWith(hexColor, "#70") \/ StartsWith(hexColor, "#6")
            \/ StartsWith(hexColor, "#4e")
         THEN "green"
    ELSE IF StartsWith(hexColor, "#ff") /\ Includes(hexColor, "c") THEN "yellow"
    ELSE IF StartsWith(hexColor, "#ff") /\ ~Includes(hexColor, "c") THEN "red"
    ELSE IF StartsWith(hexColor, "#c5") \/ Includes(hexColor, "red") THEN "red"
    ELSE IF StartsWith(hexColor, "#e7") \/ StartsWith(hexColor, "#a5") THEN "grey"
    ELSE IF StartsWith(hexColor, "#4") THEN "blue"
    ELSE IF StartsWith(hexColor, "#5") THEN "light-blue"
    ELSE IF StartsWith(hexColor, "#7") \/ StartsWith(hexColor, "#6") THEN "green"
    ELSE IF StartsWith(hexColor, "#e") \/ StartsWith(hexColor, "#f") THEN "orange"
    ELSE fallback

\* component.style?.f && component.style.f !== 'transparent'
IsPainted(component, f) == SStr(component, f) /\ component.style[f] # "transparent"

fillColor(component) ==
    IF IsPainted(component, "backgroundColor")
    THEN ShapeColorOf(toLowerCase(component.style.backgroundColor), "grey")
    ELSE "grey"

strokeColor(component) ==
    IF IsPainted(component, "borderColor")
    THEN ShapeColorOf(toLowerCase(component.style.borderColor), "black")
    ELSE "black"

\* component.style?.shapeType || component.metadata?.shapeType
\*     || component.metadata?.preset || 'rectangle'
shapeType(component) ==
    IF SStr(component, "shapeType") THEN component.style.shapeType
    ELSE IF MHas(component, "shapeType") /\ component.metadata.shapeType # ""
         THEN component.metadata.shapeType
    ELSE IF MHas(component, "preset") /\ component.metadata.preset # ""
         THEN component.metadata.preset
    ELSE "rectangle"

\* the switch on shapeType
geoType(component) ==
    LET name == shapeType(component)
    IN IF name \in {"rect", "rectangle"} THEN "rectangle"
       ELSE IF name \in {"ellipse", "oval"} THEN "ellipse"
       ELSE IF name \in {"triangle", "rtTriangle"} THEN "triangle"
       ELSE IF name \in {"diamond", "pentagon", "hexagon", "octagon"} THEN name
       ELSE IF name \in {"star4", "star5", "star6", "star8", "star10", "star12",
                         "star16", "star24", "star32",
                         "4-point star", "5-point star", "6-point star",
                         "8-point star", "10-point star", "12-point star",
                         "16-point star", "24-point star", "32-point star"}
            THEN "star"
       ELSE IF name \in {"rightArrow", "right arrow"} THEN "arrow-right"
       ELSE IF name \in {"leftArrow", "left arrow"} THEN "arrow-left"
       ELSE IF name \in {"upArrow", "up arrow"} THEN "arrow-up"
       ELSE IF name \in {"downArrow", "down arrow"} THEN "arrow-down"
       ELSE IF name \in {"trapezoid", "cloud", "heart"} THEN name
       ELSE "rectangle"

\* fillColor === 'grey' ? strokeColor : fillColor
finalColor(component) ==
    IF fillColor(component) = "grey" THEN strokeColor(component) ELSE fillColor(component)

finalFill(component) ==
    IF IsPainted(component, "backgroundColor") THEN "solid" ELSE "none"

\* component.content || 'Sample text'
TextContent(component) ==
    IF Has(component, "content") /\ component.content # "" THEN component.content
    ELSE "Sample text"

\* (component as any).richText, else toRichText(component.content || 'Sample text')
richTextContent(component) ==
    IF Has(component, "richText") THEN component.richText ELSE TextContent(component)

TextShape(component, index, frameX, frameY, slideIndex, frameId) ==
    WithParent(
        [id |-> createShapeId("text-" \o NumStr(slideIndex) \o "-" \o IdOrIndex(component, index)),
         type |-> "text",
         x |-> TextX(component, frameX, frameId),
         y |-> TextY(component, frameY, frameId),
         rotation |-> Radians(component),
         props |-> IF Or0(component, "width") # 0
                   THEN [richText |-> richTextContent(component),
                         color |-> tldrawColor(component),
                         size |-> tldrawSize(component),
                         font |-> tldrawFont(component),
                         autoSize |-> FALSE,
                         w |-> component.width]
                   ELSE [richText |-> richTextContent(component),
                         color |-> tldrawColor(component),
                         size |-> tldrawSize(component),
                         font |-> tldrawFont(component),
                         autoSize |-> TRUE]],
        frameId)

\* renderShapeComponent
GeoShape(component, index, frameX, frameY, slideIndex, frameId) ==
    WithParent(
        [id |-> createShapeId("shape-" \o NumStr(slideIndex) \o "-" \o IdOrIndex(component, index)),
         type |-> "geo",
         x |-> PosX(component, frameX, frameId),
         y |-> PosY(component, frameY, frameId),
         rotation |-> Radians(component),
         props |-> [geo |-> geoType(component),
                    color |-> finalColor(component),
                    fill |-> finalFill(component),
                    size |-> "m",
                    w |-> OrDefault(component, "width", 100),
                    h |-> OrDefault(component, "height", 100)]],
        frameId)

\* renderImageComponent: width and height, the data-URI test, the three shapes
imageWidth(component) == OrDefault(component, "width", 200)

imageHeight(component) == OrDefault(component, "height", 150)

\* a faulty test: any imageUrl taken for a data URI
HasImageUrl(component) ==
    MHas(component, "imageUrl") /\ component.metadata.imageUrl # ""

\* component.metadata?.imageUrl && component.metadata.imageUrl.startsWith('data:')
IsDataUrl(component) ==
    /\ MHas(component, "imageUrl")
    /\ component.metadata.imageUrl # ""
    /\ StartsWith(component.metadata.imageUrl, "data:")

\* AssetRecordType.createId(): a fresh id, named by the order of its creation
createAssetId(n) == "asset:" \o NumStr(n)

\* component.metadata?.name || 'image'
AssetName(component) ==
    IF MHas(component, "name") /\ component.metadata.name # ""
    THEN component.metadata.name ELSE "image"

AssetRecord(component, assetId) ==
    [id |-> assetId,
     type |-> "image",
     typeName |-> "asset",
     props |-> [name |-> AssetName(component),
                src |-> component.metadata.imageUrl,
                w |-> imageWidth(component),
                h |-> imageHeight(component),
                isAnimated |-> FALSE]]

ImageShape(component, index, frameX, frameY, slideIndex, frameId, assetId) ==
    WithParent(
        [id |-> createShapeId("image-" \o NumStr(slideIndex) \o "-" \o IdOrIndex(component, index)),
         type |-> "image",
         x |-> PosX(component, frameX, frameId),
         y |-> PosY(component, frameY, frameId),
         rotation |-> Radians(component),
         props |-> [assetId |-> assetId,
                    w |-> imageWidth(component),
                    h |-> imageHeight(component)]],
        frameId)

PlaceholderShape(component, index, frameX, frameY, slideIndex, frameId) ==
    WithParent(
        [id |-> createShapeId("placeholder-" \o NumStr(slideIndex) \o "-"
                              \o IdOrIndex(component, index)),
         type |-> "geo",
         x |-> PosX(component, frameX, frameId),
         y |-> PosY(component, frameY, frameId),
         props |-> [geo |-> "rectangle", color |-> "grey", fill |-> "pattern",
                    size |-> "m",
                    w |-> imageWidth(component),
                    h |-> imageHeight(component)]],
        frameId)

---------------------------------------------------------------------------
(* renderTableComponent.  A row of tableData is [isArray |-> TRUE, cells]  *)
(* or [isArray |-> FALSE] (a value that is no array and has no length); a  *)
(* cell is [ty |-> "string", s], [ty |-> "number", n] or [ty |-> "null"].  *)

\* component.metadata?.tableData || []
tableDataOf(component) ==
    IF MHas(component, "tableData") THEN component.metadata.tableData ELSE <<>>

\* component.metadata?.rows || tableData.length
tableRows(component) ==
    IF MHas(component, "rows") /\ component.metadata.rows # 0
    THEN component.metadata.rows ELSE Len(tableDataOf(component))

\* tableData[0]?.length || 0
FirstRowLength(tableData) ==
    IF Len(tableData) > 0 /\ tableData[1].isArray THEN Len(tableData[1].cells) ELSE 0

\* component.metadata?.cols || (tableData[0]?.length || 0)
tableCols(component) ==
    IF MHas(component, "cols") /\ component.metadata.cols # 0
    THEN component.metadata.cols ELSE FirstRowLength(tableDataOf(component))

cellWidth(component) == OrDefault(component, "width", 300) \div tableCols(component)

cellHeight(component) == OrDefault(component, "height", 150) \div tableRows(component)

\* the truthiness of a cell's content
Truthy(cellContent) ==
    CASE cellContent.ty = "string" -> cellContent.s # ""
      [] cellContent.ty = "number" -> cellContent.n # 0
      [] OTHER -> FALSE

\* cellContent.trim() is a TypeError on a truthy value that is no string
TrimThrows(cellContent) == Truthy(cellContent) /\ cellContent.ty # "string"

\* cellContent && cellContent.trim()
HasCellText(cellContent) ==
    Truthy(cellContent) /\ cellContent.ty = "string" /\ Trim(cellContent.s) # ""

\* rowIndex === 0 && component.metadata?.hasHeader
IsHeader(component, rowIndex) ==
    rowIndex = 0 /\ MHas(component, "hasHeader") /\ component.metadata.hasHeader

CellKey(component, index, slideIndex) ==
    "table-" \o NumStr(slideIndex) \o "-" \o IdOrIndex(component, index)

CellRect(component, index, frameX, frameY, slideIndex, frameId, rowIndex, colIndex) ==
    WithParent(
        [id |-> createShapeId(CellKey(component, index, slideIndex) \o "-cell-bg-"
                              \o NumStr(rowIndex) \o "-" \o NumStr(colIndex)),
         type |-> "geo",
         x |-> PosX(component, frameX, frameId) + colIndex * cellWidth(component),
         y |-> PosY(component, frameY, frameId) + rowIndex * cellHeight(component),
         props |-> [geo |-> "rectangle",
                    color |-> IF IsHeader(component, rowIndex) THEN "blue" ELSE "light-blue",
                    fill |-> "solid", size |-> "s",
                    w |-> cellWidth(component), h |-> cellHeight(component)]],
        frameId)

CellText(component, index, frameX, frameY, slideIndex, frameId, rowIndex, colIndex, cellContent) ==
    WithParent(
        [id |-> createShapeId(CellKey(component, index, slideIndex) \o "-cell-text-"
                              \o NumStr(rowIndex) \o "-" \o NumStr(colIndex)),
         type |-> "text",
         x |-> PosX(component, frameX, frameId) + colIndex * cellWidth(component) + 8,
         y |-> PosY(component, frameY, frameId) + rowIndex * cellHeight(component)
               + cellHeight(component) \div 2 - 6,
         props |-> [richText |-> cellContent.s, color |-> "black", size |-> "s",
                    font |-> "sans"]],
        frameId)

\* row.forEach: the shapes of the cells from colIndex on, and whether it threw
RECURSIVE RowShapes(_, _, _, _, _, _, _, _)
RowShapes(component, index, frameX, frameY, slideIndex, frameId, rowIndex, colIndex) ==
    LET cells == tableDataOf(component)[rowIndex + 1].cells
    IN IF colIndex >= Len(cells) THEN [shapes |-> <<>>, threw |-> FALSE]
       ELSE LET cellContent == cells[colIndex + 1]
                rect == CellRect(component, index, frameX, frameY, slideIndex, frameId,
                                 rowIndex, colIndex)
                text == CellText(component, index, frameX, frameY, slideIndex, frameId,
                                 rowIndex, colIndex, cellContent)
            IN IF TrimThrows(cellContent) THEN [shapes |-> <<rect>>, threw |-> TRUE]
               ELSE LET rest == RowShapes(component, index, frameX, frameY, slideIndex,
                                          frameId, rowIndex, colIndex + 1)
                    IN [shapes |-> (IF HasCellText(cellContent) THEN <<rect, text>>
                                    ELSE <<rect>>) \o rest.shapes,
                        threw |-> rest.threw]

\* tableData.forEach: a row that is no array is skipped
RECURSIVE TableShapesFrom(_, _, _, _, _, _, _)
TableShapesFrom(component, index, frameX, frameY, slideIndex, frameId, rowIndex) ==
    LET tableData == tableDataOf(component)
    IN IF rowIndex >= Len(tableData) THEN [shapes |-> <<>>, threw |-> FALSE]
       ELSE LET row == IF tableData[rowIndex + 1].isArray
                       THEN RowShapes(component, index, frameX, frameY, slideIndex,
                                      frameId, rowIndex, 0)
                       ELSE [shapes |-> <<>>, threw |-> FALSE]
            IN IF row.threw THEN row
               ELSE LET rest == TableShapesFrom(component, index, frameX, frameY,
                                                slideIndex, frameId, rowIndex + 1)
                    IN [shapes |-> row.shapes \o rest.shapes, threw |-> rest.threw]

\* renderTableComponent: returns early on empty tableData
TableShapes(component, index, frameX, frameY, slideIndex, frameId) ==
    IF Len(tableDataOf(component)) = 0 THEN [shapes |-> <<>>, threw |-> FALSE]
    ELSE TableShapesFrom(component, index, frameX, frameY, slideIndex, frameId, 0)

---------------------------------------------------------------------------
(* The editor.  A call is recorded with the slide and the component (its   *)
(* original position, 0 for a frame) on whose behalf it was issued, and    *)
(* with whether the editor threw on it.                                    *)

CreateShapeCall(shape, slideIndex, comp, threw) ==
    [op |-> "createShape", shape |-> shape, slideIndex |-> slideIndex, comp |-> comp,
     threw |-> threw]

CreateAssetsCall(asset, slideIndex, comp, threw) ==
    [op |-> "createAssets", asset |-> asset, slideIndex |-> slideIndex, comp |-> comp,
     threw |-> threw]

\* editor.deleteShapes(editor.getCurrentPageShapes().map(shape => shape.id))
DeleteShapesCall(ids) == [op |-> "deleteShapes", ids |-> ids, threw |-> FALSE]

ZoomToFitCall == [op |-> "zoomToFit", threw |-> FALSE]

\* editor.createShape: the record is put under its id
PutShape(shapes, shape) == {s \in shapes : s.id # shape.id} \cup {shape}

SceneAfterCall(shapes, call) ==
    CASE call.threw -> shapes
      [] call.op = "createShape" -> PutShape(shapes, call.shape)
      [] call.op = "deleteShapes" -> {s \in shapes : s.id \notin call.ids}
      [] OTHER -> shapes

RECURSIVE SceneAfter(_, _)
SceneAfter(shapes, calls) ==
    IF calls = <<>> THEN shapes
    ELSE SceneAfter(SceneAfterCall(shapes, Head(calls)), Tail(calls))

AssetsAfterCall(registered, call) ==
    IF call.op = "createAssets" /\ ~call.threw
    THEN {a \in registered : a.id # call.asset.id} \cup {call.asset}
    ELSE registered

RECURSIVE AssetsAfter(_, _)
AssetsAfter(registered, calls) ==
    IF calls = <<>> THEN registered
    ELSE AssetsAfter(AssetsAfterCall(registered, Head(calls)), Tail(calls))

\* one createShape call per shape, none of them throwing
ShapeCalls(shapes, slideIndex, comp) ==
    [k \in 1..Len(shapes) |-> CreateShapeCall(shapes[k], slideIndex, comp, FALSE)]

---------------------------------------------------------------------------
(* A rebuild: one invocation of drawSlides or drawComponents.              *)
(*   pc = "awaitRender"  awaiting the promise of render*Component(index)   *)
(*        "awaitFetch"   awaiting fetch(dataUrl) in renderImageComponent   *)
(*        "awaitBlob"    awaiting response.blob()                          *)
(*        "awaitFrame"   awaiting the promise of drawComponentsInFrame     *)
(*        "done"         returned;  "rejected"  ended by an exception      *)

\* a faulty test: the components looked at first
IsComponentsMode(run) == Len(run.input.components) = 0

\* slides && slides.length > 0: drawSlides runs, else drawComponents
IsSlidesMode(run) == Len(run.input.slides) > 0

\* the components argument of the current drawComponentsInFrame
ComponentsOf(run, slideIndex) ==
    IF IsSlidesMode(run) THEN run.input.slides[slideIndex + 1].components
    ELSE run.input.components

FrameXOf(run, slideIndex) ==
    IF IsSlidesMode(run) THEN slideX(slideIndex, run.size.maxSlideWidth) ELSE 0

FrameYOf(run, slideIndex) ==
    IF IsSlidesMode(run) THEN slideY(slideIndex, run.size.maxSlideHeight) ELSE 0

FrameIdOf(run, slideIndex) == IF IsSlidesMode(run) THEN frameIdOf(slideIndex) ELSE ""

\* the original position of sortedComponents[index]
OrigOf(run, slideIndex, index) == SortOrder(ComponentsOf(run, slideIndex))[index + 1]

CurrentComponent(run) == SortedAt(ComponentsOf(run, run.slideIndex), run.index)

\* the placeholder call of the component at sortedComponents[index]
PlaceholderCall(run, slideIndex, index) ==
    CreateShapeCall(
        PlaceholderShape(SortedAt(ComponentsOf(run, slideIndex), index), index,
                         FrameXOf(run, slideIndex), FrameYOf(run, slideIndex),
                         slideIndex, FrameIdOf(run, slideIndex)),
        slideIndex, OrigOf(run, slideIndex, index), FALSE)

\* the switch of drawComponentsInFrame on sortedComponents[index], run up to
\* the first await that suspends: the calls issued and where the rebuild waits
RenderSegment(run, slideIndex, index) ==
    LET component == SortedAt(ComponentsOf(run, slideIndex), index)
        orig == OrigOf(run, slideIndex, index)
        frameX == FrameXOf(run, slideIndex)
        frameY == FrameYOf(run, slideIndex)
        frameId == FrameIdOf(run, slideIndex)
        table == TableShapes(component, index, frameX, frameY, slideIndex, frameId)
    IN CASE component.type = "text" ->
              [calls |-> <<CreateShapeCall(
                              TextShape(component, index, frameX, frameY, slideIndex, frameId),
                              slideIndex, orig, FALSE)>>,
               pc |-> "awaitRender"]
         [] component.type = "shape" ->
              [calls |-> <<CreateShapeCall(
                              GeoShape(component, index, frameX, frameY, slideIndex, frameId),
                              slideIndex, orig, FALSE)>>,
               pc |-> "awaitRender"]
         [] component.type = "image" ->
              IF IsDataUrl(component)
              THEN [calls |-> <<>>, pc |-> "awaitFetch"]
              ELSE [calls |-> <<PlaceholderCall(run, slideIndex, index)>>,
                    pc |-> "awaitRender"]
         [] component.type = "table" ->
              [calls |-> ShapeCalls(table.shapes, slideIndex, orig),
               pc |-> IF table.threw THEN "rejected" ELSE "awaitRender"]
         [] OTHER -> [calls |-> <<>>, pc |-> "awaitRender"]

\* an iteration of the slide loop of drawSlides up to its first suspension:
\* the frame is created and drawComponentsInFrame starts on its first component
SlideSegment(run, slideIndex) ==
    LET frame == CreateShapeCall(
                    FrameShape(run.input.slides[slideIndex + 1], slideIndex, run.size),
                    slideIndex, 0, FALSE)
        first == RenderSegment(run, slideIndex, 0)
    IN IF Len(ComponentsOf(run, slideIndex)) = 0
       THEN [calls |-> <<frame>>, pc |-> "awaitFrame"]
       ELSE [calls |-> <<frame>> \o first.calls, pc |-> first.pc]

\* drawSlides / drawComponents from their first line to their first suspension
StartSegment(run, shapes) ==
    LET clear == DeleteShapesCall({s.id : s \in shapes})
        first == RenderSegment(run, 0, 0)
        slide == SlideSegment(run, 0)
    IN IF IsSlidesMode(run)
       THEN [calls |-> <<clear>> \o slide.calls, pc |-> slide.pc]
       ELSE [calls |-> <<clear>> \o first.calls, pc |-> first.pc]

NewRun(input) ==
    [input |-> input,
     size |-> UniformSize(input.slides),
     pc |-> "start", slideIndex |-> 0, index |-> 0, calls |-> <<>>]

\* the rebuild `run` issues `segment.calls` and then waits at `segment.pc`
Advance(run, slideIndex, index, segment) ==
    [run EXCEPT !.pc = segment.pc, !.slideIndex = slideIndex, !.index = index,
                !.calls = @ \o segment.calls]

\* handleMount and the useEffect: which rebuild, if any, the props start
StartsRebuild(input) == Len(input.slides) > 0 \/ Len(input.components) > 0

Started(input) ==
    Advance(NewRun(input), 0, 0, StartSegment(NewRun(input), scene))

---------------------------------------------------------------------------
(* Input documents.                                                        *)

Str(s) == [ty |-> "string", s |-> s]

Row(cells) == [isArray |-> TRUE, cells |-> cells]

DataUrl == "data:image/png;base64,AA"

TextA ==
    [type |-> "text", id |-> "a", x |-> 100, y |-> 100, width |-> 50, height |-> 20,
     rotation |-> 90, zIndex |-> 2, content |-> "Title"]

TextNoId == [type |-> "text", x |-> 10, y |-> 20]

TextOne == [type |-> "text", id |-> "1", x |-> 30, y |-> 40, zIndex |-> 0]

ShapeA ==
    [type |-> "shape", id |-> "a", x |-> 400, y |-> 300, width |-> 1000, height |-> 500,
     zIndex |-> 1]

ImageData ==
    [type |-> "image", id |-> "pic", x |-> 20, y |-> 30, width |-> 300, height |-> 200,
     zIndex |-> 1, metadata |-> [imageUrl |-> DataUrl, name |-> "logo"]]

ImageHttp ==
    [type |-> "image", x |-> 50, y |-> 60, zIndex |-> 3,
     metadata |-> [imageUrl |-> "http://h/p.png"]]

ImageNoUrl == [type |-> "image", id |-> "a", zIndex |-> -1]

Unknown == [type |-> "chart", id |-> "c", x |-> 5, y |-> 5]

TableOk ==
    [type |-> "table", id |-> "t", x |-> 40, y |-> 80, width |-> 300, height |-> 160,
     zIndex |-> 2,
     metadata |-> [tableData |-> <<Row(<<Str("h1"), Str("h2")>>),
                                   Row(<<Str(""), Str("v")>>),
                                   Row(<<Str(" \t"), [ty |-> "null"]>>),
                                   Row(<<Str(" w "), [ty |-> "number", n |-> 0]>>)>>,
                   rows |-> 4, cols |-> 2, hasHeader |-> TRUE]]

TableNumberCell ==
    [type |-> "table", id |-> "n", width |-> 300, height |-> 160,
     metadata |-> [tableData |-> <<Row(<<Str("a"), [ty |-> "number", n |-> 5], Str("b")>>),
                                   Row(<<Str("c"), Str("d"), Str("e")>>)>>]]

TableRowsColsDiffer ==
    [type |-> "table", id |-> "m", width |-> 300, height |-> 150, zIndex |-> 1,
     metadata |-> [tableData |-> <<Row(<<Str("a"), Str("b")>>)>>, rows |-> 3, cols |-> 2]]

TableBadRow ==
    [type |-> "table", width |-> 300, height |-> 150,
     metadata |-> [tableData |-> <<Row(<<Str("a"), Str("b")>>), [isArray |-> FALSE],
                                   Row(<<Str("c"), Str("d")>>)>>]]

TableEmpty == [type |-> "table", id |-> "e", metadata |-> [tableData |-> <<>>]]

ComponentPool ==
    {TextA, TextNoId, TextOne, ShapeA, ImageData, ImageHttp, ImageNoUrl, Unknown,
     TableOk, TableNumberCell, TableRowsColsDiffer, TableBadRow, TableEmpty}

\* the sequences over S of length 1..n
SeqsUpTo(S, n) == UNION {[1..k -> S] : k \in 1..n}

Slide(slideNumber, components) == [slideNumber |-> slideNumber, components |-> components]

SlidesDoc(slides) == [slides |-> slides, components |-> <<>>]

LegacyDoc(components) == [slides |-> <<>>, components |-> components]

EmptyDoc == [slides |-> <<>>, components |-> <<>>]

\* zIndex 3, 1, 2 in the original order, the middle one a data-URI image
StackingExample ==
    <<[type |-> "text", id |-> "A", x |-> 10, y |-> 10, zIndex |-> 3],
      [type |-> "image", id |-> "B", zIndex |-> 1, metadata |-> [imageUrl |-> DataUrl]],
      [type |-> "shape", id |-> "C", x |-> 20, y |-> 20, zIndex |-> 2]>>

\* a tie between the first and the last, a table between them
TieExample == <<TextA, TableOk, ImageHttp, [type |-> "shape", zIndex |-> 2]>>

\* one slide, or the legacy component list, of up to MaxComps pool components
OneDocs ==
    {SlidesDoc(<<Slide(1, cs)>>) : cs \in SeqsUpTo(ComponentPool, MaxComps)}
    \cup {LegacyDoc(cs) : cs \in SeqsUpTo(ComponentPool, MaxComps)}
    \cup {SlidesDoc(<<Slide(1, StackingExample)>>), SlidesDoc(<<Slide(1, TieExample)>>),
          LegacyDoc(StackingExample)}

\* a document with slides and components both: the slides are drawn
BothDoc == [slides |-> <<Slide(1, <<TextNoId>>)>>, components |-> <<ShapeA>>]

\* documents for interleaved rebuilds
Docs ==
    {EmptyDoc,
     SlidesDoc(<<Slide(1, <<ImageData, TextA>>)>>),
     SlidesDoc(<<Slide(1, <<TextNoId>>)>>),
     SlidesDoc(<<Slide(1, <<ShapeA>>), Slide(2, <<ImageData>>)>>),
     SlidesDoc(<<[slideNumber |-> 1, components |-> <<>>, metadata |-> [name |-> "Intro"]]>>),
     LegacyDoc(<<ImageData, TextNoId>>),
     BothDoc}

\* style.color, style.backgroundColor and style.borderColor values: hex
\* colours the mappers name, hex colours they do not, upper and lower case,
\* colour names, 'transparent'
ColorInputs ==
    {"#000000", "#FFFFFF", "#ffffff", "#E97132", "#e97132", "#4EA72E", "#ED7D31",
     "#4472C4", "#4472c4", "#5B9BD5", "#70AD47", "#FFC000", "#C55A5A",
     "#FF0000", "#ff7f00", "#E00000", "#D01010", "#F2F2F2", "#4F81BD", "#0A0A0A",
     "#0070C0", "#7030A0", "#A5A5A5", "#E7E6E6", "#C00000",
     "#123456", "#ABCDEF", "#999999", "#808080", "#B0B0B0",
     "purple", "red", "DarkRed", "transparent", "Transparent"}

BorderInputs == {"#000000", "#FF0000", "#5B9BD5", "#123456", "#999999", "transparent"}

FontInputs ==
    {"Times New Roman", "Georgia", "PT Serif", "Courier New", "Consolas", "Monaco",
     "Roboto Mono", "Comic Sans MS", "Permanent Marker", "Sketch Rockwell",
     "Arial", "Helvetica", "Calibri", "CALIBRI", "Microsoft Sans Serif", "sans-serif",
     "TIMES", "georgia"}

FontSizeInputs == {0, 8, 10, 12, 13, 14, 18, 19, 23, 24, 40}

ShapeTypeInputs ==
    {"rect", "rectangle", "ellipse", "oval", "rtTriangle", "diamond", "hexagon",
     "star5", "5-point star", "rightArrow", "left arrow", "upArrow", "downArrow",
     "trapezoid", "cloud", "heart", "Ellipse", "roundRect"}

\* rotations in degrees: quarter turns for the texts, any angle elsewhere
TextRotationInputs == {0, 90, 180, 270, -90, 360}

RotationInputs == TextRotationInputs \cup {45, -30}

ColoredText(color) ==
    [type |-> "text", id |-> "t", x |-> 10, y |-> 20, style |-> [color |-> color]]

FontText(fontFamily) ==
    [type |-> "text", x |-> 10, y |-> 20, width |-> 200,
     style |-> [fontFamily |-> fontFamily, fontSize |-> 12]]

SizedText(fontSize) ==
    [type |-> "text", x |-> 10, y |-> 20, content |-> "Body",
     style |-> [fontSize |-> fontSize]]

FilledShape(backgroundColor) ==
    [type |-> "shape", id |-> "f", x |-> 30, y |-> 40, width |-> 120, height |-> 80,
     style |-> [backgroundColor |-> backgroundColor]]

BorderedShape(borderColor) ==
    [type |-> "shape", x |-> 30, y |-> 40,
     style |-> [borderColor |-> borderColor]]

PaintedShape(backgroundColor, borderColor) ==
    [type |-> "shape", id |-> "p", x |-> 30, y |-> 40, width |-> 120, height |-> 80,
     style |-> [backgroundColor |-> backgroundColor, borderColor |-> borderColor]]

StyleNamedShape(name) ==
    [type |-> "shape", id |-> "g", style |-> [shapeType |-> name],
     metadata |-> [shapeType |-> "cloud", preset |-> "heart"]]

MetaNamedShape(name) ==
    [type |-> "shape", id |-> "g", style |-> [borderColor |-> "#000000"],
     metadata |-> [shapeType |-> name, preset |-> "heart"]]

PresetShape(name) == [type |-> "shape", metadata |-> [preset |-> name]]

RotatedText(rotation) ==
    [type |-> "text", id |-> "rt", x |-> 100, y |-> 100, width |-> 50, height |-> 20,
     rotation |-> rotation]

RotatedBareText(rotation) == [type |-> "text", x |-> 100, y |-> 100, rotation |-> rotation]

RotatedShape(rotation) ==
    [type |-> "shape", id |-> "rs", x |-> 100, y |-> 100, width |-> 50, height |-> 20,
     rotation |-> rotation]

RotatedImage(rotation) ==
    [type |-> "image", id |-> "ri", x |-> 100, y |-> 100, width |-> 50, height |-> 20,
     rotation |-> rotation, metadata |-> [imageUrl |-> DataUrl]]

RotatedHttpImage(rotation) ==
    [type |-> "image", id |-> "rh", x |-> 100, y |-> 100, width |-> 50, height |-> 20,
     rotation |-> rotation, metadata |-> [imageUrl |-> "http://h/p.png"]]

StyleComponents ==
    {ColoredText(color) : color \in ColorInputs}
    \cup {FontText(fontFamily) : fontFamily \in FontInputs}
    \cup {SizedText(fontSize) : fontSize \in FontSizeInputs}
    \cup {FilledShape(color) : color \in ColorInputs}
    \cup {BorderedShape(color) : color \in ColorInputs}
    \cup {PaintedShape(bg, border) : <<bg, border>> \in ColorInputs \X BorderInputs}
    \cup {StyleNamedShape(name) : name \in ShapeTypeInputs}
    \cup {MetaNamedShape(name) : name \in ShapeTypeInputs}
    \cup {PresetShape(name) : name \in ShapeTypeInputs}
    \cup {TextNoId, TextA, ShapeA, [type |-> "shape"],
          [type |-> "text", id |-> "r", richText |-> "bullets", content |-> "plain"],
          [type |-> "text", style |-> [color |-> "", fontFamily |-> ""]],
          [type |-> "shape", style |-> [backgroundColor |-> "", borderColor |-> ""]]}

RotatedComponents ==
    {RotatedText(rotation) : rotation \in TextRotationInputs}
    \cup {RotatedBareText(rotation) : rotation \in TextRotationInputs}
    \cup {RotatedShape(rotation) : rotation \in RotationInputs}
    \cup {RotatedImage(rotation) : rotation \in RotationInputs}
    \cup {RotatedHttpImage(rotation) : rotation \in RotationInputs}
    \cup {[type |-> "text", x |-> 100, y |-> 100, width |-> 50, height |-> 20],
          [type |-> "shape", x |-> 100, y |-> 100, width |-> 50, height |-> 20],
          ImageData, ImageNoUrl}

\* one component on one slide; the rotated ones in the legacy list as well
StyleDocs ==
    {SlidesDoc(<<Slide(1, <<c>>)>>) : c \in StyleComponents \cup RotatedComponents}
    \cup {LegacyDoc(<<c>>) : c \in RotatedComponents}

\* slides that differ in their geometry only
Box(x, y, width, height) ==
    [type |-> "shape", x |-> x, y |-> y, width |-> width, height |-> height]

SlideContents ==
    {<<>>,
     <<Box(400, 300, 1000, 500)>>,
     <<[type |-> "shape", id |-> "s"], [type |-> "text", width |-> 1300]>>,
     <<Box(-100, -50, 40, 20), Box(1240, 10, 10, 680), [type |-> "text", y |-> 900]>>}

\* slide k of a document has slideNumber k
Numbered(contents) == [k \in 1..Len(contents) |-> Slide(k, contents[k])]

LayoutDocs == {SlidesDoc(Numbered(cs)) : cs \in SeqsUpTo(SlideContents, MaxSlides)}

---------------------------------------------------------------------------
(* The component: mount, re-render, and the steps of the rebuilds.         *)

EditorAfter(calls) ==
    /\ scene' = SceneAfter(scene, calls)
    /\ assets' = AssetsAfter(assets, calls)

\* a rebuild starts on `input`: drawSlides or drawComponents runs to its first await
Start(input) ==
    /\ runs' = Append(runs, Started(input))
    /\ EditorAfter(Started(input).calls)

\* A continuation behind an await of a settled promise is a microtask, and the
\* event loop runs every microtask before its next task.  A mount, a
\* re-render, and the settling of fetch() or blob() are tasks: they find no
\* rebuild waiting at "awaitRender" or "awaitFrame".
MicrotasksDrained == \A r \in DOMAIN runs : runs[r].pc \notin {"awaitRender", "awaitFrame"}

\* handleMount
Mount ==
    /\ ~editorRef
    /\ MicrotasksDrained
    /\ editorRef' = TRUE
    /\ IF StartsRebuild(props) THEN Start(props) ELSE UNCHANGED <<scene, assets, runs>>
    /\ UNCHANGED <<props, idsIssued>>

\* a re-render with new slides / components: the useEffect on [slides, components]
PropsChange(input) ==
    /\ Len(runs) < MaxRebuilds
    /\ MicrotasksDrained
    /\ props' = input
    /\ IF editorRef /\ StartsRebuild(input) THEN Start(input)
       ELSE UNCHANGED <<scene, assets, runs>>
    /\ UNCHANGED <<editorRef, idsIssued>>

\* rebuild r goes on from `runs[r]` to `next`, issuing the calls that `next` adds
Step(r, next) ==
    /\ runs' = [runs EXCEPT ![r] = next]
    /\ EditorAfter(SubSeq(next.calls, Len(runs[r].calls) + 1, Len(next.calls)))
    /\ UNCHANGED <<editorRef, props>>

\* the for loop of drawComponentsInFrame after `await render*Component(...)`
Resume(r) ==
    LET run == runs[r]
    IN /\ run.pc = "awaitRender"
       /\ IF run.index + 1 < Len(ComponentsOf(run, run.slideIndex))
          THEN Step(r, Advance(run, run.slideIndex, run.index + 1,
                               RenderSegment(run, run.slideIndex, run.index + 1)))
          ELSE Step(r, [run EXCEPT !.pc = "awaitFrame"])
       /\ UNCHANGED idsIssued

\* after `await drawComponentsInFrame(...)`: the next slide, or zoomToFit
NextSlide(r) ==
    LET run == runs[r]
    IN /\ run.pc = "awaitFrame"
       /\ IF IsSlidesMode(run) /\ run.slideIndex + 1 < Len(run.input.slides)
          THEN Step(r, Advance(run, run.slideIndex + 1, 0,
                               SlideSegment(run, run.slideIndex + 1)))
          ELSE Step(r, Advance(run, run.slideIndex, run.index,
                               [calls |-> <<ZoomToFitCall>>, pc |-> "done"]))
       /\ UNCHANGED idsIssued

\* fetch(dataUrl) fulfils: response.blob() is awaited next
FetchResolves(r) ==
    /\ runs[r].pc = "awaitFetch"
    /\ MicrotasksDrained
    /\ Step(r, [runs[r] EXCEPT !.pc = "awaitBlob"])
    /\ UNCHANGED idsIssued

\* the catch block: the placeholder is created and renderImageComponent returns
Fallback(r, calls) ==
    Step(r, Advance(runs[r], runs[r].slideIndex, runs[r].index,
                    [calls |-> calls \o <<PlaceholderCall(runs[r], runs[r].slideIndex,
                                                           runs[r].index)>>,
                     pc |-> "awaitRender"]))

\* fetch(dataUrl) rejects
FetchRejects(r) ==
    /\ runs[r].pc = "awaitFetch"
    /\ MicrotasksDrained
    /\ Fallback(r, <<>>)
    /\ UNCHANGED idsIssued

\* response.blob() rejects
BlobRejects(r) ==
    /\ runs[r].pc = "awaitBlob"
    /\ MicrotasksDrained
    /\ Fallback(r, <<>>)
    /\ UNCHANGED idsIssued

\* the asset and image-shape calls of the try block
AssetCall(r, threw) ==
    CreateAssetsCall(AssetRecord(CurrentComponent(runs[r]), createAssetId(idsIssued)),
                     runs[r].slideIndex, OrigOf(runs[r], runs[r].slideIndex, runs[r].index),
                     threw)

ImageCall(r, threw) ==
    LET run == runs[r]
    IN CreateShapeCall(
           ImageShape(CurrentComponent(run), run.index,
                      FrameXOf(run, run.slideIndex), FrameYOf(run, run.slideIndex),
                      run.slideIndex, FrameIdOf(run, run.slideIndex),
                      createAssetId(idsIssued)),
           run.slideIndex, OrigOf(run, run.slideIndex, run.index), threw)

\* response.blob() fulfils and the try block runs through
ImageCreated(r) ==
    /\ runs[r].pc = "awaitBlob"
    /\ MicrotasksDrained
    /\ idsIssued' = idsIssued + 1
    /\ Step(r, Advance(runs[r], runs[r].slideIndex, runs[r].index,
                       [calls |-> <<AssetCall(r, FALSE), ImageCall(r, FALSE)>>,
                        pc |-> "awaitRender"]))

\* editor.createAssets throws
CreateAssetsThrows(r) ==
    /\ runs[r].pc = "awaitBlob"
    /\ MicrotasksDrained
    /\ idsIssued' = idsIssued + 1
    /\ Fallback(r, <<AssetCall(r, TRUE)>>)

\* editor.createShape of the image throws, after createAssets succeeded
CreateImageThrows(r) ==
    /\ runs[r].pc = "awaitBlob"
    /\ MicrotasksDrained
    /\ idsIssued' = idsIssued + 1
    /\ Fallback(r, <<AssetCall(r, FALSE), ImageCall(r, TRUE)>>)

InitWith(inputs) ==
    /\ editorRef = FALSE
    /\ props \in inputs
    /\ scene = {}
    /\ assets = {}
    /\ idsIssued = 0
    /\ runs = <<>>

Rebuilds == DOMAIN runs

\* the component with its props changing while rebuilds are under way
Init == InitWith(Docs)

Next ==
    \/ Mount
    \/ \E input \in Docs : PropsChange(input)
    \/ \E r \in Rebuilds : Resume(r)
    \/ \E r \in Rebuilds : NextSlide(r)
    \/ \E r \in Rebuilds : FetchResolves(r)
    \/ \E r \in Rebuilds : FetchRejects(r)
    \/ \E r \in Rebuilds : BlobRejects(r)
    \/ \E r \in Rebuilds : ImageCreated(r)
    \/ \E r \in Rebuilds : CreateAssetsThrows(r)
    \/ \E r \in Rebuilds : CreateImageThrows(r)

Spec == Init /\ [][Next]_vars

\* one mount on an enumerated single-slide or legacy document
InitOne == InitWith(OneDocs)

NextOne ==
    \/ Mount
    \/ \E r \in Rebuilds : Resume(r)
    \/ \E r \in Rebuilds : NextSlide(r)
    \/ \E r \in Rebuilds : FetchResolves(r)
    \/ \E r \in Rebuilds : FetchRejects(r)
    \/ \E r \in Rebuilds : BlobRejects(r)
    \/ \E r \in Rebuilds : ImageCreated(r)
    \/ \E r \in Rebuilds : CreateAssetsThrows(r)
    \/ \E r \in Rebuilds : CreateImageThrows(r)

SpecOne == InitOne /\ [][NextOne]_vars

\* one mount on an enumerated document of several slides
InitLayout == InitWith(LayoutDocs)

NextLayout ==
    \/ Mount
    \/ \E r \in Rebuilds : Resume(r)
    \/ \E r \in Rebuilds : NextSlide(r)

SpecLayout == InitLayout /\ [][NextLayout]_vars

\* one mount on a document of one styled or rotated component
InitStyle == InitWith(StyleDocs)

NextStyle ==
    \/ Mount
    \/ \E r \in Rebuilds : Resume(r)
    \/ \E r \in Rebuilds : NextSlide(r)
    \/ \E r \in Rebuilds : FetchResolves(r)
    \/ \E r \in Rebuilds : FetchRejects(r)
    \/ \E r \in Rebuilds : BlobRejects(r)
    \/ \E r \in Rebuilds : ImageCreated(r)
    \/ \E r \in Rebuilds : CreateAssetsThrows(r)
    \/ \E r \in Rebuilds : CreateImageThrows(r)

SpecStyle == InitStyle /\ [][NextStyle]_vars

---------------------------------------------------------------------------
(* Reading a rebuild's calls.                                              *)

Finished(run) == run.pc \in {"done", "rejected"}

\* the positions of the createShape calls the editor accepted
Created(run) ==
    {i \in DOMAIN run.calls : run.calls[i].op = "createShape" /\ ~run.calls[i].threw}

\* those issued for component `comp` (its original position) of slide `slideIndex`
CreatedFor(run, slideIndex, comp) ==
    {i \in Created(run) : run.calls[i].slideIndex = slideIndex /\ run.calls[i].comp = comp}

\* the positions of the createAssets calls the editor accepted
Registered(run) ==
    {i \in DOMAIN run.calls : run.calls[i].op = "createAssets" /\ ~run.calls[i].threw}

RegisteredFor(run, slideIndex, comp) ==
    {i \in Registered(run) : run.calls[i].slideIndex = slideIndex /\ run.calls[i].comp = comp}

\* the slides a rebuild walks: the legacy list counts as slide 0
SlideIndexes(run) == IF IsSlidesMode(run) THEN 0..(Len(run.input.slides) - 1) ELSE {0}

ZOf(component) == IF "zIndex" \in DOMAIN component THEN component.zIndex ELSE 0

---------------------------------------------------------------------------
(* C1.  Last-writer-wins rebuild: once every started rebuild has finished, *)
(* the scene holds exactly the shapes created from the input of the        *)
(* rebuild started last, and no shape of an earlier rebuild.               *)

C1_LastWriterWins ==
    (runs # <<>> /\ \A r \in DOMAIN runs : Finished(runs[r]))
        => scene = SceneAfter({}, runs[Len(runs)].calls)

(* C2.  Identifier uniqueness: within one rebuild no two createShape calls *)
(* carry the same identifier.                                              *)

C2_UniqueIdentifiers ==
    \A r \in DOMAIN runs :
        \A i, j \in DOMAIN runs[r].calls :
            (/\ i < j
             /\ runs[r].calls[i].op = "createShape"
             /\ runs[r].calls[j].op = "createShape")
                => runs[r].calls[i].shape.id # runs[r].calls[j].shape.id

(* C3.  Stacking and sequencing: within one rebuild the shapes of a slide  *)
(* are created in the order of its components sorted ascending by zIndex   *)
(* (missing counted as 0, ties in original order), all shapes of one       *)
(* component before any shape of the next; a finished rebuild has created  *)
(* a shape for every text, shape and image component.                      *)

\* component a of the slide comes at or before component b in stacking order
StacksBefore(components, a, b) ==
    \/ a = b
    \/ ZOf(components[a]) < ZOf(components[b])
    \/ ZOf(components[a]) = ZOf(components[b]) /\ a < b

C3_StackingOrder ==
    \A r \in DOMAIN runs :
        \A s \in SlideIndexes(runs[r]) :
            /\ \A i, j \in Created(runs[r]) :
                   (/\ i < j
                    /\ runs[r].calls[i].slideIndex = s /\ runs[r].calls[j].slideIndex = s
                    /\ runs[r].calls[i].comp > 0 /\ runs[r].calls[j].comp > 0)
                       => StacksBefore(ComponentsOf(runs[r], s),
                                       runs[r].calls[i].comp, runs[r].calls[j].comp)
            /\ runs[r].pc = "done" =>
                   \A k \in DOMAIN ComponentsOf(runs[r], s) :
                       ComponentsOf(runs[r], s)[k].type \in {"text", "shape", "image"}
                           => CreatedFor(runs[r], s, k) # {}

\* the 3, 1, 2 example is drawn as B, C, A, the image B having been decoded
C3_Witness ==
    \E r \in DOMAIN runs :
        /\ runs[r].pc = "done"
        /\ runs[r].input = SlidesDoc(<<Slide(1, StackingExample)>>)
        /\ [i \in 1..3 |-> runs[r].calls[i + 2].comp] = <<2, 2, 3>>
        /\ runs[r].calls[6].comp = 1
        /\ runs[r].calls[4].shape.type = "image"

(* C4.  Image resolution outcome: a data-URI image component ends in       *)
(* exactly one of two ways: one asset registered and one image shape that  *)
(* references it, or (on a failure at decode, asset registration or shape  *)
(* creation) one placeholder of the same x, y, width and height and no     *)
(* asset registered.                                                       *)

\* the imageUrl is present and begins with "data:"
HasDataUri(component) ==
    /\ "metadata" \in DOMAIN component
    /\ "imageUrl" \in DOMAIN component.metadata
    /\ Len(component.metadata.imageUrl) >= 5
    /\ SubSeq(component.metadata.imageUrl, 1, 5) = "data:"

\* the box an image component asks for, in the frame's coordinates
SameBox(shape, component, offsetX, offsetY) ==
    /\ shape.x = offsetX + (IF "x" \in DOMAIN component THEN component.x ELSE 0)
    /\ shape.y = offsetY + (IF "y" \in DOMAIN component THEN component.y ELSE 0)
    /\ shape.props.w = (IF "width" \in DOMAIN component /\ component.width # 0
                        THEN component.width ELSE 200)
    /\ shape.props.h = (IF "height" \in DOMAIN component /\ component.height # 0
                        THEN component.height ELSE 150)

ImagesFor(run, s, k) == {i \in CreatedFor(run, s, k) : run.calls[i].shape.type = "image"}

PlaceholdersFor(run, s, k) == {i \in CreatedFor(run, s, k) : run.calls[i].shape.type = "geo"}

C4_ImageOutcome ==
    \A r \in DOMAIN runs :
        \A s \in SlideIndexes(runs[r]) :
            \A k \in DOMAIN ComponentsOf(runs[r], s) :
                LET run == runs[r]
                    component == ComponentsOf(run, s)[k]
                    images == ImagesFor(run, s, k)
                    placeholders == PlaceholdersFor(run, s, k)
                    registered == RegisteredFor(run, s, k)
                IN (/\ component.type = "image"
                    /\ HasDataUri(component)
                    /\ CreatedFor(run, s, k) # {})
                   => \/ /\ Cardinality(registered) = 1
                         /\ Cardinality(images) = 1
                         /\ placeholders = {}
                         /\ \A i \in images : \A a \in registered :
                                run.calls[i].shape.props.assetId = run.calls[a].asset.id
                      \/ /\ registered = {}
                         /\ images = {}
                         /\ Cardinality(placeholders) = 1
                         /\ \A i \in placeholders :
                                SameBox(run.calls[i].shape, component, 0, 0)

(* C5.  No fatal component: whatever the document (an unknown component   *)
(* type, a table row that is no array, a table cell that is no string,     *)
(* missing numeric fields), no rebuild ends in an exception, and an        *)
(* unknown type creates no shape.                                          *)

C5_NoFatalComponent ==
    \A r \in DOMAIN runs :
        /\ runs[r].pc # "rejected"
        /\ \A s \in SlideIndexes(runs[r]) :
               \A k \in DOMAIN ComponentsOf(runs[r], s) :
                   ComponentsOf(runs[r], s)[k].type \notin {"text", "shape", "image", "table"}
                       => CreatedFor(runs[r], s, k) = {}

(* C6.  Table decomposition count: a finished rebuild has created, for     *)
(* every table with non-empty tableData, rows x cols cell backgrounds      *)
(* (rows and cols from the metadata when given, else from tableData) and   *)
(* one text per cell whose content is non-empty after trimming; a table    *)
(* with empty tableData has created nothing.                               *)

DataOf(component) ==
    IF "metadata" \in DOMAIN component /\ "tableData" \in DOMAIN component.metadata
    THEN component.metadata.tableData ELSE <<>>

RowsOf(component) ==
    IF "rows" \in DOMAIN component.metadata /\ component.metadata.rows # 0
    THEN component.metadata.rows ELSE Len(DataOf(component))

ColsOf(component) ==
    IF "cols" \in DOMAIN component.metadata /\ component.metadata.cols # 0
    THEN component.metadata.cols
    ELSE IF DataOf(component)[1].isArray THEN Len(DataOf(component)[1].cells) ELSE 0

\* the cells of tableData that hold a string with something but white space in it
FilledCells(component) ==
    {rc \in (DOMAIN DataOf(component)) \X (1..8) :
        /\ DataOf(component)[rc[1]].isArray
        /\ rc[2] \in DOMAIN DataOf(component)[rc[1]].cells
        /\ DataOf(component)[rc[1]].cells[rc[2]].ty = "string"
        /\ \E p \in 1..Len(DataOf(component)[rc[1]].cells[rc[2]].s) :
               SubSeq(DataOf(component)[rc[1]].cells[rc[2]].s, p, p) \notin {" ", "\t", "\n"}}

C6_TableCount ==
    \A r \in DOMAIN runs :
        \A s \in SlideIndexes(runs[r]) :
            \A k \in DOMAIN ComponentsOf(runs[r], s) :
                LET run == runs[r]
                    component == ComponentsOf(run, s)[k]
                    backgrounds == {i \in CreatedFor(run, s, k) : run.calls[i].shape.type = "geo"}
                    texts == {i \in CreatedFor(run, s, k) : run.calls[i].shape.type = "text"}
                IN (run.pc = "done" /\ component.type = "table")
                   => IF Len(DataOf(component)) = 0
                      THEN CreatedFor(run, s, k) = {}
                      ELSE /\ Cardinality(backgrounds) = RowsOf(component) * ColsOf(component)
                           /\ Cardinality(texts) = Cardinality(FilledCells(component))

(* C7.  Determinism of identifiers: two rebuilds of the same input that    *)
(* met the same outcomes issue createShape and createAssets calls with     *)
(* the same identifiers, asset identifiers included.                       *)

\* what a call did, without its identifiers
KindOf(call) ==
    IF call.op = "createShape" THEN <<call.op, call.threw, call.shape.type>>
    ELSE <<call.op, call.threw, "">>

\* the identifiers a call carries
IdsOf(call) ==
    CASE call.op = "createAssets" -> <<call.asset.id>>
      [] call.op = "createShape" /\ call.shape.type = "image" ->
             <<call.shape.id, call.shape.props.assetId>>
      [] call.op = "createShape" -> <<call.shape.id>>
      [] OTHER -> <<>>

C7_DeterministicIds ==
    \A r1, r2 \in DOMAIN runs :
        (/\ runs[r1].input = runs[r2].input
         /\ runs[r1].pc = "done" /\ runs[r2].pc = "done"
         /\ [i \in DOMAIN runs[r1].calls |-> KindOf(runs[r1].calls[i])]
                = [i \in DOMAIN runs[r2].calls |-> KindOf(runs[r2].calls[i])])
            => [i \in DOMAIN runs[r1].calls |-> IdsOf(runs[r1].calls[i])]
                   = [i \in DOMAIN runs[r2].calls |-> IdsOf(runs[r2].calls[i])]

(* C8.  Image fallback without suspension: a rebuild waits on fetch() or   *)
(* blob() only inside an image component whose imageUrl is a data URI; an  *)
(* image component whose imageUrl is absent or no data URI has, as soon as *)
(* its processing has begun, its one placeholder created, the rebuild      *)
(* having issued no createAssets call for it.                              *)

\* component k of slide s has been reached by the rebuild's loops
Begun(run, s, k) ==
    /\ run.pc # "start"
    /\ \/ s < run.slideIndex
       \/ /\ s = run.slideIndex
          /\ \E p \in 0..run.index : OrigOf(run, s, p) = k

C8_FallbackWithoutSuspension ==
    \A r \in DOMAIN runs :
        LET run == runs[r]
        IN /\ run.pc \in {"awaitFetch", "awaitBlob"} => HasDataUri(CurrentComponent(run))
           /\ \A s \in SlideIndexes(run) :
                  \A k \in DOMAIN ComponentsOf(run, s) :
                      (/\ ComponentsOf(run, s)[k].type = "image"
                       /\ ~HasDataUri(ComponentsOf(run, s)[k])
                       /\ Begun(run, s, k))
                          => /\ Cardinality(CreatedFor(run, s, k)) = 1
                             /\ \A i \in CreatedFor(run, s, k) :
                                    /\ run.calls[i].shape.props.fill = "pattern"
                                    /\ SameBox(run.calls[i].shape, ComponentsOf(run, s)[k],
                                               0, 0)
                             /\ \A i \in DOMAIN run.calls :
                                    ~(/\ run.calls[i].op = "createAssets"
                                      /\ run.calls[i].slideIndex = s
                                      /\ run.calls[i].comp = k)

\* the step that began an http image has left its placeholder behind
C8_Witness ==
    \E r \in DOMAIN runs :
        /\ runs[r].pc = "awaitRender"
        /\ CurrentComponent(runs[r]) = ImageHttp
        /\ runs[r].calls[Len(runs[r].calls)].shape.props.fill = "pattern"
        /\ assets = {}

(* C9.  Uniform frame sizing: every frame of a rebuild is as wide as       *)
(* max(1280, the greatest x + width of any component of any slide + 50)    *)
(* and as high as max(720, the greatest y + height + 50), a missing x, y,  *)
(* width or height counting as 0; one slide without components gives one   *)
(* frame of 1280 x 720.                                                    *)

Field0(component, f) == IF f \in DOMAIN component THEN component[f] ELSE 0

\* x + width, or y + height, of every component of every slide
Extents(slides, from, span) ==
    {Field0(slides[k].components[c], from) + Field0(slides[k].components[c], span) :
        <<k, c>> \in {kc \in (DOMAIN slides) \X (1..8) : kc[2] \in DOMAIN slides[kc[1]].components}}

\* the least number that is at least `base` and at least every e + 50
AtLeast(base, extents) ==
    CHOOSE m \in {base} \cup {e + 50 : e \in extents} :
        m >= base /\ \A e \in extents : m >= e + 50

Frames(run) == {i \in Created(run) : run.calls[i].shape.type = "frame"}

C9_UniformFrameSize ==
    \A r \in DOMAIN runs :
        LET run == runs[r]
        IN /\ \A i \in Frames(run) :
                  /\ run.calls[i].shape.props.w
                        = AtLeast(1280, Extents(run.input.slides, "x", "width"))
                  /\ run.calls[i].shape.props.h
                        = AtLeast(720, Extents(run.input.slides, "y", "height"))
           /\ (/\ run.pc = "done"
               /\ Len(run.input.slides) = 1
               /\ run.input.slides[1].components = <<>>)
                  => /\ Cardinality(Frames(run)) = 1
                     /\ \A i \in Frames(run) :
                            /\ run.calls[i].shape.props.w = 1280
                            /\ run.calls[i].shape.props.h = 720

\* a slide reaching (1400, 800) and an empty one: both frames are 1450 x 850
C9_Witness ==
    \E r \in DOMAIN runs :
        /\ runs[r].pc = "done"
        /\ Len(runs[r].input.slides) = 2
        /\ runs[r].input.slides[1].components = <<Box(400, 300, 1000, 500)>>
        /\ runs[r].input.slides[2].components = <<>>
        /\ Cardinality(Frames(runs[r])) = 2
        /\ \A i \in Frames(runs[r]) :
               /\ runs[r].calls[i].shape.props.w = 1450
               /\ runs[r].calls[i].shape.props.h = 850

(* C10.  Grid placement without overlap: the frame of slide i lies at      *)
(* x = (i mod 4) * (frameWidth + 200) + 50, y = (i div 4) * (frameHeight + *)
(* 200) + 50, and any two frames of a rebuild are at least 200 apart       *)
(* horizontally or vertically.                                             *)

\* the two intervals [a, a + len] and [b, b + len] are at least `gap` apart
Apart(a, b, len, gap) == a + len + gap <= b \/ b + len + gap <= a

C10_GridPlacement ==
    \A r \in DOMAIN runs :
        LET run == runs[r]
        IN \A i \in Frames(run) :
               LET f == run.calls[i].shape
                   n == run.calls[i].slideIndex
               IN /\ f.x = (n % 4) * (f.props.w + 200) + 50
                  /\ f.y = (n \div 4) * (f.props.h + 200) + 50
                  /\ \A j \in Frames(run) :
                         i # j =>
                             \/ Apart(f.x, run.calls[j].shape.x, f.props.w, 200)
                             \/ Apart(f.y, run.calls[j].shape.y, f.props.h, 200)

\* the fifth slide opens the second row: x = 50, y = frameHeight + 250
C10_Witness ==
    \E r \in DOMAIN runs :
        /\ runs[r].pc = "done"
        /\ Cardinality(Frames(runs[r])) = 5
        /\ \E i \in Frames(runs[r]) :
               /\ runs[r].calls[i].slideIndex = 4
               /\ runs[r].calls[i].shape.x = 50
               /\ runs[r].calls[i].shape.y = runs[r].calls[i].shape.props.h + 250
               /\ runs[r].calls[i].shape.props.h > 720

(* C11.  Coordinate space by parent: a text, geo, image, placeholder or    *)
(* table-cell shape created with a parent frame (slides mode) is placed    *)
(* from the component's own x and y, the frame origin not added; one       *)
(* created without a parent (legacy mode) is placed at the frame origin    *)
(* passed, (0, 0), plus the component's x and y.  A shape carries a parent *)
(* exactly in slides mode, and the parent is the frame of its own slide.   *)

\* cos and sin of a quarter-turn angle given in degrees
TurnCos(deg) == <<1, 0, -1, 0>>[((deg % 360) \div 90) + 1]

TurnSin(deg) == <<0, 1, 0, -1>>[((deg % 360) \div 90) + 1]

Turned(component) == "rotation" \in DOMAIN component /\ component.rotation # 0

\* the corner of the unrotated box moved so that the centre stays in place
CorrectedX(component) ==
    LET w == Field0(component, "width")
        h == Field0(component, "height")
    IN Field0(component, "x") + w \div 2
           - (w \div 2) * TurnCos(component.rotation)
           + (h \div 2) * TurnSin(component.rotation)

CorrectedY(component) ==
    LET w == Field0(component, "width")
        h == Field0(component, "height")
    IN Field0(component, "y") + h \div 2
           - (w \div 2) * TurnSin(component.rotation)
           - (h \div 2) * TurnCos(component.rotation)

\* the cell size of a table: the box, 300 x 150 by default, over cols x rows
CellW(component) ==
    (IF Field0(component, "width") # 0 THEN component.width ELSE 300) \div ColsOf(component)

CellH(component) ==
    (IF Field0(component, "height") # 0 THEN component.height ELSE 150) \div RowsOf(component)

\* `shape` sits on the cell grid of the table whose corner is (cornerX, cornerY)
OnCellGrid(shape, component, cornerX, cornerY) ==
    \E row \in 0..(Len(DataOf(component)) - 1), col \in 0..7 :
        IF shape.type = "geo"
        THEN /\ shape.x = cornerX + col * CellW(component)
             /\ shape.y = cornerY + row * CellH(component)
        ELSE /\ shape.x = cornerX + col * CellW(component) + 8
             /\ shape.y = cornerY + row * CellH(component) + CellH(component) \div 2 - 6

\* `shape` is where `component` puts it, counted from (originX, originY)
PlacedFrom(shape, component, originX, originY) ==
    CASE component.type = "table" ->
             OnCellGrid(shape, component, originX + Field0(component, "x"),
                        originY + Field0(component, "y"))
      [] component.type = "text" /\ Turned(component) ->
             /\ shape.x = originX + CorrectedX(component)
             /\ shape.y = originY + CorrectedY(component)
      [] OTHER ->
             /\ shape.x = originX + Field0(component, "x")
             /\ shape.y = originY + Field0(component, "y")

C11_CoordinateSpaceByParent ==
    \A r \in DOMAIN runs :
        \A i \in Created(runs[r]) :
            LET run == runs[r]
                call == run.calls[i]
                component == ComponentsOf(run, call.slideIndex)[call.comp]
            IN call.comp > 0 =>
                   IF "parentId" \in DOMAIN call.shape
                   THEN /\ Len(run.input.slides) > 0
                        /\ \E j \in Frames(run) :
                               /\ j < i
                               /\ run.calls[j].slideIndex = call.slideIndex
                               /\ run.calls[j].shape.id = call.shape.parentId
                        /\ PlacedFrom(call.shape, component, 0, 0)
                   ELSE /\ Len(run.input.slides) = 0
                        /\ PlacedFrom(call.shape, component, 0, 0)

\* a table cell of the second column and a turned text, both children of the
\* frame at (50, 50), lie at 40 + 150 and at 100 + 25 + 10 of their frame
C11_Witness ==
    \E r \in DOMAIN runs :
        /\ runs[r].pc = "done"
        /\ runs[r].input = SlidesDoc(<<Slide(1, <<TableOk, TextA>>)>>)
        /\ \E i, j, f \in Created(runs[r]) :
               /\ runs[r].calls[f].shape.type = "frame"
               /\ runs[r].calls[f].shape.x = 50
               /\ runs[r].calls[i].shape.type = "geo"
               /\ runs[r].calls[i].shape.parentId = runs[r].calls[f].shape.id
               /\ runs[r].calls[i].shape.x = 190
               /\ runs[r].calls[i].shape.props.color = "blue"
               /\ runs[r].calls[j].shape.type = "text"
               /\ runs[r].calls[j].shape.parentId = runs[r].calls[f].shape.id
               /\ runs[r].calls[j].shape.x = 135
               /\ runs[r].calls[j].shape.y = 85

(* C12.  Colour classifier, totality and defaults: whatever the colour     *)
(* input (a hex value the mapper names, one it does not, upper or lower    *)
(* case, "transparent", absent), the colour of every created shape is one  *)
(* of the 12 palette values; an absent, empty, "transparent" or unmatched  *)
(* input gives black as text colour and as stroke colour and grey as fill  *)
(* colour, so that a shape whose background and border both default is     *)
(* black.                                                                  *)

Palette ==
    {"black", "grey", "light-violet", "violet", "blue", "light-blue", "yellow",
     "orange", "green", "light-green", "light-red", "red"}

\* inputs that no rule of either mapper names
UnmatchedColors ==
    {"#123456", "#ABCDEF", "#999999", "#808080", "#B0B0B0", "#C00000", "purple",
     "Transparent"}

\* the style field f of the component is absent, empty, "transparent" or unmatched
Defaults(component, f) ==
    \/ "style" \notin DOMAIN component
    \/ f \notin DOMAIN component.style
    \/ component.style[f] \in {"", "transparent"} \cup UnmatchedColors

C12_ColorClassifier ==
    \A r \in DOMAIN runs :
        \A i \in Created(runs[r]) :
            LET call == runs[r].calls[i]
                component == ComponentsOf(runs[r], call.slideIndex)[call.comp]
            IN /\ "color" \in DOMAIN call.shape.props => call.shape.props.color \in Palette
               /\ (call.comp > 0 /\ component.type = "text") =>
                      (Defaults(component, "color") => call.shape.props.color = "black")
               /\ (call.comp > 0 /\ component.type = "shape") =>
                      /\ fillColor(component) \in Palette
                      /\ strokeColor(component) \in Palette
                      /\ Defaults(component, "backgroundColor") =>
                             /\ fillColor(component) = "grey"
                             /\ call.shape.props.color = strokeColor(component)
                      /\ Defaults(component, "borderColor") =>
                             strokeColor(component) = "black"
                      /\ (/\ Defaults(component, "backgroundColor")
                          /\ Defaults(component, "borderColor")) =>
                             call.shape.props.color = "black"

\* an unknown upper-case hex background with a transparent border: black
C12_Witness ==
    \E r \in DOMAIN runs :
        /\ runs[r].pc = "done"
        /\ runs[r].input = SlidesDoc(<<Slide(1, <<PaintedShape("#ABCDEF", "transparent")>>)>>)
        /\ \E i \in Created(runs[r]) :
               /\ runs[r].calls[i].shape.type = "geo"
               /\ runs[r].calls[i].shape.props.color = "black"
               /\ runs[r].calls[i].shape.props.fill = "solid"

(* C13.  Font classifier: the font of a created text is, without regard to *)
(* letter case, serif when the family contains a serif keyword (times,     *)
(* georgia, serif), else mono when it contains a monospace keyword         *)
(* (courier, consolas, monaco, mono), else draw when it contains a         *)
(* handwriting keyword (comic, marker, sketch), and sans in every other    *)
(* case; an absent family and the family of a sans-serif font are sans.    *)

SerifKeywords == {"times", "georgia", "serif"}

MonoKeywords == {"courier", "consolas", "monaco", "mono"}

DrawKeywords == {"comic", "marker", "sketch"}

\* families of sans-serif fonts
SansSerifFamilies ==
    {"Arial", "Helvetica", "Calibri", "CALIBRI", "Microsoft Sans Serif", "sans-serif"}

\* the family, in lower case, contains one of the keywords
HasKeyword(family, keywords) == \E k \in keywords : Includes(toLowerCase(family), k)

FamilyOf(component) ==
    IF "style" \in DOMAIN component /\ "fontFamily" \in DOMAIN component.style
    THEN component.style.fontFamily ELSE ""

\* the font the keywords of the family call for
KeywordFont(family) ==
    IF HasKeyword(family, SerifKeywords) THEN "serif"
    ELSE IF HasKeyword(family, MonoKeywords) THEN "mono"
    ELSE IF HasKeyword(family, DrawKeywords) THEN "draw"
    ELSE "sans"

C13_FontClassifier ==
    \A r \in DOMAIN runs :
        \A i \in Created(runs[r]) :
            LET call == runs[r].calls[i]
                component == ComponentsOf(runs[r], call.slideIndex)[call.comp]
            IN (call.comp > 0 /\ component.type = "text") =>
                   /\ call.shape.props.font = KeywordFont(FamilyOf(component))
                   /\ (FamilyOf(component) \in {""} \cup SansSerifFamilies) =>
                          call.shape.props.font = "sans"

(* C14.  Rotation asymmetry: a geo, image or placeholder shape is created  *)
(* at the component's uncorrected corner whatever the rotation; a text is  *)
(* created at the corner recomputed about the centre when it is rotated    *)
(* and at the uncorrected corner when its rotation is 0 or absent; every   *)
(* text, geo and image shape carries rotation = degrees * PI / 180 (the    *)
(* model keeps the degrees), which is 0 when the rotation is 0 or absent.  *)

\* the shapes of text, shape and image components, table cells left out
OfTurnable(component) == component.type \in {"text", "shape", "image"}

C14_RotationAsymmetry ==
    \A r \in DOMAIN runs :
        \A i \in Created(runs[r]) :
            LET call == runs[r].calls[i]
                component == ComponentsOf(runs[r], call.slideIndex)[call.comp]
            IN (call.comp > 0 /\ OfTurnable(component)) =>
                   /\ IF component.type = "text" /\ Turned(component)
                      THEN /\ call.shape.x = CorrectedX(component)
                           /\ call.shape.y = CorrectedY(component)
                      ELSE /\ call.shape.x = Field0(component, "x")
                           /\ call.shape.y = Field0(component, "y")
                   /\ (component.type \in {"text", "shape"} \/ call.shape.type = "image") =>
                          /\ "rotation" \in DOMAIN call.shape
                          /\ call.shape.rotation = Field0(component, "rotation")

\* the text at (100, 100) of size 50 x 20 turned by 90 degrees: (135, 85)
C14_Witness ==
    \E r \in DOMAIN runs :
        /\ runs[r].pc = "done"
        /\ runs[r].input = SlidesDoc(<<Slide(1, <<RotatedText(90)>>)>>)
        /\ \E i \in Created(runs[r]) :
               /\ runs[r].calls[i].shape.type = "text"
               /\ runs[r].calls[i].shape.x = 135
               /\ runs[r].calls[i].shape.y = 85
               /\ runs[r].calls[i].shape.rotation = 90

(* C15.  No dangling parent: in every reachable state, rebuilds that       *)
(* interleave at an image's decode included, every shape of the scene that *)
(* carries a parent refers to a frame that is in the scene; and within one *)
(* rebuild the frame of a slide is created before any shape that names it  *)
(* as its parent.                                                          *)

\* the parent of every child in `shapes` is a frame in `shapes`
ParentsPresent(shapes) ==
    \A child \in shapes :
        "parentId" \in DOMAIN child =>
            \E frame \in shapes : frame.type = "frame" /\ frame.id = child.parentId

\* the rebuild created the frame before each of its children
FrameFirst(run) ==
    \A i \in Created(run) :
        "parentId" \in DOMAIN run.calls[i].shape =>
            \E j \in Frames(run) :
                j < i /\ run.calls[j].shape.id = run.calls[i].shape.parentId

C15_NoDanglingParent ==
    /\ ParentsPresent(scene)
    /\ \A r \in DOMAIN runs : FrameFirst(runs[r])

(* C16.  Empty input leaves the scene unchanged: a mount with, or a change *)
(* of the input to, empty slides and empty components starts no rebuild:   *)
(* no shape is deleted or created, no asset registered and no zoomToFit    *)
(* requested by that step, and the shapes of the previous document stay.   *)
(* When the slides are not empty the slides are drawn and the components   *)
(* are ignored: the rebuild creates one frame per slide and every other    *)
(* shape as a child of a frame.                                            *)

EmptyInput(input) == input.slides = <<>> /\ input.components = <<>>

\* the rebuild draws frames and children of frames only
DrawsSlides(run) ==
    /\ run.calls[1].op = "deleteShapes"
    /\ \A i \in Created(run) :
           IF run.calls[i].comp = 0 THEN run.calls[i].shape.type = "frame"
           ELSE "parentId" \in DOMAIN run.calls[i].shape
    /\ run.pc = "done" => Cardinality(Frames(run)) = Len(run.input.slides)

C16_EmptyInputNoRebuild ==
    [][/\ (/\ EmptyInput(props')
           /\ props' # props \/ editorRef' # editorRef)
              => UNCHANGED <<scene, assets, runs>>
       /\ \A r \in DOMAIN runs' :
              Len(runs'[r].input.slides) > 0 => DrawsSlides(runs'[r])]_vars

\* the document with slides and components both was drawn as its slide, and
\* its shapes are still there after the input became empty
C16_Witness ==
    /\ EmptyInput(props)
    /\ Len(runs) = 1
    /\ runs[1].pc = "done"
    /\ runs[1].input = BothDoc
    /\ Cardinality(Frames(runs[1])) = 1
    /\ scene = SceneAfter({}, runs[1].calls)
    /\ Cardinality(scene) = 2

====
